---------------------------- MODULE Spec2Model ----------------------------
(***************************************************************************)
(* The translation-audit endpoint: the two handlers of the repository,     *)
(* src/api/audit.js ("audit") and src/unnamed/part_000 ("part"), as one    *)
(* state machine per request.                                              *)
(*                                                                         *)
(* Text is a sequence of units.  A unit is a single significant character  *)
(* ("{", "&", a quote, a digit, ...) or a run of letters written as one    *)
(* string ("rows", "null", "Here", "amp"), so indexOf, replaceAll and      *)
(* JSON.parse work on the characters that matter to them.  Static text of  *)
(* a template literal (a tag, a fixed message) is one unit.                *)
(***************************************************************************)
EXTENDS Integers, Sequences, FiniteSets, TLC

VARIABLES
    impl,       \* which handler serves the request: "audit" or "part"
    method,     \* req.method
    hasKey,     \* whether process.env.OPENAI_API_KEY is set
    body,       \* req.body || {}: the values of src, tgt and style
    pc,         \* the handler's position
    stages,     \* the stages the request has run, in order
    prompt,     \* the messages built from the body
    sent,       \* the requests sent to the completion API, in order
    reply,      \* what the completion API's model was asked to emit
    upstream,   \* the Response r that fetch resolved with
    content,    \* the text handed to JSON.parse
    parsed,     \* the parsed reply
    html,       \* the rendered report
    responses   \* the responses written to res, in order

vars == <<impl, method, hasKey, body, pc, stages, prompt, sent, reply,
          upstream, content, parsed, html, responses>>

(***************************************************************************)
(* Bounds of the model.                                                    *)
(***************************************************************************)
MaxRows == 2
MaxCell == 2
MaxWrap == 2

(***************************************************************************)
(* Text helpers.                                                           *)
(***************************************************************************)
QUOTE == "\""
BACKSLASH == "\\"

\* The texts ss[lo..hi], concatenated.
RECURSIVE FlattenFrom(_, _, _)
FlattenFrom(ss, lo, hi) ==
    IF lo > hi THEN <<>>
    ELSE IF lo = hi THEN ss[lo]
    ELSE FlattenFrom(ss, lo, (lo + hi) \div 2) \o FlattenFrom(ss, (lo + hi) \div 2 + 1, hi)

\* The texts of a sequence, concatenated.
Flatten(ss) == FlattenFrom(ss, 1, Len(ss))

\* The function f of domain 1..n as the sequence of its values.
AsSeq(f) == f \o <<>>

Range(s) == {s[i] : i \in DOMAIN s}

\* The strings over the units U of length at most n.
RECURSIVE StringsUpTo(_, _)
StringsUpTo(U, n) ==
    IF n = 0 THEN {<<>>}
    ELSE LET shorter == StringsUpTo(U, n - 1)
         IN  shorter \cup {Append(s, u) : s \in shorter, u \in U}

(***************************************************************************)
(* JavaScript values: what JSON.parse yields, plus undefined.              *)
(*   t: the type tag; s: the text of a string, number or boolean;          *)
(*   a: the elements of an array; o: the members of an object, in order.   *)
(***************************************************************************)
VUndef   == [t |-> "undefined", s |-> <<>>, a |-> <<>>, o |-> <<>>]
VNull    == [t |-> "null", s |-> <<>>, a |-> <<>>, o |-> <<>>]
VBool(w) == [t |-> "bool", s |-> <<w>>, a |-> <<>>, o |-> <<>>]
VNum(d)  == [t |-> "num", s |-> d, a |-> <<>>, o |-> <<>>]
VStr(x)  == [t |-> "str", s |-> x, a |-> <<>>, o |-> <<>>]
VArr(es) == [t |-> "arr", s |-> <<>>, a |-> es, o |-> <<>>]
VObj(ms) == [t |-> "obj", s |-> <<>>, a |-> <<>>, o |-> ms]

Digits == {"0", "1", "2", "3", "4", "5", "6", "7", "8", "9"}
Whitespace == {" "}

(***************************************************************************)
(* JSON.parse, by recursive descent over the text.  A result is            *)
(* [ok, val, next]: whether a value was read at position i, the value, and *)
(* the position after it.                                                  *)
(***************************************************************************)
ParseFail == [ok |-> FALSE, val |-> VUndef, next |-> 0]
ParseOk(v, n) == [ok |-> TRUE, val |-> v, next |-> n]

RECURSIVE SkipWs(_, _)
SkipWs(t, i) ==
    IF i <= Len(t) /\ t[i] \in Whitespace THEN SkipWs(t, i + 1) ELSE i

\* Whether the unit at position j of a string literal that starts at
\* position i is taken literally: an odd number of backslashes stands
\* before it.
Escaped(t, i, j) ==
    (CHOOSE k \in 0..(j - i) :
        /\ \A m \in 1..k : t[j - m] = BACKSLASH
        /\ k = j - i \/ t[j - k - 1] # BACKSLASH) % 2 = 1

ClosingQuote(t, i, j) == t[j] = QUOTE /\ ~Escaped(t, i, j)

\* The backslash that makes the next unit literal.
EscapeAt(t, i, j) == t[j] = BACKSLASH /\ ~Escaped(t, i, j)

\* The characters of a string literal from position i (after the opening
\* quote) to its closing quote at e; a backslash takes the quote or the
\* backslash after it literally and nothing else.
ParseCharsTo(t, i, e) ==
    IF \E j \in i..(e - 1) : EscapeAt(t, i, j) /\ t[j + 1] \notin {QUOTE, BACKSLASH}
    THEN ParseFail
    ELSE LET kept == SelectSeq([j \in 1..(e - i) |-> i + j - 1],
                               LAMBDA j : ~EscapeAt(t, i, j))
         IN  ParseOk(VStr(AsSeq([n \in 1..Len(kept) |-> t[kept[n]]])), e + 1)

ParseChars(t, i) ==
    IF \E j \in i..Len(t) : ClosingQuote(t, i, j)
    THEN ParseCharsTo(t, i, CHOOSE j \in i..Len(t) :
                               ClosingQuote(t, i, j) /\ \A m \in i..(j - 1) : ~ClosingQuote(t, i, m))
    ELSE ParseFail

\* The digits from position i on.
ParseDigits(t, i) ==
    LET n == CHOOSE k \in 1..(Len(t) - i + 1) :
                 /\ \A m \in 0..(k - 1) : t[i + m] \in Digits
                 /\ i + k > Len(t) \/ t[i + k] \notin Digits
    IN  ParseOk(VNum(SubSeq(t, i, i + n - 1)), i + n)

\* The unit at position i, "" past the end of the text.
UnitAt(t, i) == IF i > Len(t) THEN "" ELSE t[i]

RECURSIVE ParseValue(_, _), ParseMember(_, _), ParseMembers(_, _, _), ParseElements(_, _, _)
ParseValue(t, i0) ==
    LET i == SkipWs(t, i0)
        u == UnitAt(t, i)
    IN  CASE u = "{" ->
               IF UnitAt(t, SkipWs(t, i + 1)) = "}"
               THEN ParseOk(VObj(<<>>), SkipWs(t, i + 1) + 1)
               ELSE ParseMembers(t, SkipWs(t, i + 1), <<>>)
          [] u = "[" ->
               IF UnitAt(t, SkipWs(t, i + 1)) = "]"
               THEN ParseOk(VArr(<<>>), SkipWs(t, i + 1) + 1)
               ELSE ParseElements(t, SkipWs(t, i + 1), <<>>)
          [] u = QUOTE -> ParseChars(t, i + 1)
          [] u \in Digits ->
               IF u = "0" /\ UnitAt(t, i + 1) \in Digits THEN ParseFail ELSE ParseDigits(t, i)
          [] u = "null" -> ParseOk(VNull, i + 1)
          [] u \in {"true", "false"} -> ParseOk(VBool(u), i + 1)
          [] OTHER -> ParseFail

\* key : value from position i; val is the member, next the position of
\* what follows it.
ParseMember(t, i) ==
    LET k == IF UnitAt(t, i) = QUOTE THEN ParseChars(t, i + 1) ELSE ParseFail
        v == ParseValue(t, SkipWs(t, k.next) + 1)
    IN  IF k.ok /\ UnitAt(t, SkipWs(t, k.next)) = ":" /\ v.ok
        THEN ParseOk([k |-> k.val.s, v |-> v.val], SkipWs(t, v.next))
        ELSE ParseFail

\* member { , member } "}" from position i.
ParseMembers(t, i, acc) ==
    LET m == ParseMember(t, i)
    IN  CASE m.ok /\ UnitAt(t, m.next) = "}" -> ParseOk(VObj(Append(acc, m.val)), m.next + 1)
          [] m.ok /\ UnitAt(t, m.next) = "," ->
               ParseMembers(t, SkipWs(t, m.next + 1), Append(acc, m.val))
          [] OTHER -> ParseFail

\* value { , value } "]" from position i.
ParseElements(t, i, acc) ==
    LET v == ParseValue(t, i)
        n == SkipWs(t, v.next)
    IN  CASE v.ok /\ UnitAt(t, n) = "]" -> ParseOk(VArr(Append(acc, v.val)), n + 1)
          [] v.ok /\ UnitAt(t, n) = "," -> ParseElements(t, n + 1, Append(acc, v.val))
          [] OTHER -> ParseFail

\* JSON.parse(text): a value, or a SyntaxError (ok = FALSE).
JSONParse(text) ==
    LET r == ParseValue(text, 1)
    IN  IF r.ok /\ SkipWs(text, r.next) > Len(text) THEN r ELSE ParseFail

(***************************************************************************)
(* The JavaScript operations the handlers apply to the parsed reply.       *)
(***************************************************************************)
\* v in a boolean context (the left side of ||).
Truthy(v) ==
    IF v.t \in {"undefined", "null"} THEN FALSE
    ELSE IF v.t = "bool" THEN v.s = <<"true">>
    ELSE IF v.t = "num" THEN v.s # <<"0">>
    ELSE IF v.t = "str" THEN v.s # <<>>
    ELSE TRUE

Nullish(v) == v.t \in {"undefined", "null"}

\* v.k for a v that is neither null nor undefined: the last member named k
\* of an object; undefined on an array, a string, a number or a boolean,
\* none of which has a property the handlers read.
RECURSIVE Lookup(_, _, _)
Lookup(ms, k, i) ==
    IF i = 0 THEN VUndef
    ELSE IF ms[i].k = k THEN ms[i].v
    ELSE Lookup(ms, k, i - 1)

Prop(v, k) == IF v.t = "obj" THEN Lookup(v.o, <<k>>, Len(v.o)) ELSE VUndef

\* `${v}`: the string a template literal makes of v.
RECURSIVE ToStr(_), JoinStr(_, _)
ToStr(v) ==
    IF v.t \in {"str", "num", "bool"} THEN v.s
    ELSE IF v.t = "null" THEN <<"null">>
    ELSE IF v.t = "undefined" THEN <<"undefined">>
    ELSE IF v.t = "arr" THEN JoinStr(v.a, 1)
    ELSE <<"[object Object]">>

\* Array.prototype.join(","): null and undefined elements give "".
JoinStr(es, i) ==
    IF i > Len(es) THEN <<>>
    ELSE (IF i > 1 THEN <<",">> ELSE <<>>)
         \o (IF Nullish(es[i]) THEN <<>> ELSE ToStr(es[i]))
         \o JoinStr(es, i + 1)

\* s.replaceAll(ch, rep) on a text.
replaceAll(s, ch, rep) ==
    Flatten([i \in DOMAIN s |-> IF s[i] = ch THEN rep ELSE <<s[i]>>])

AMP  == <<"&", "amp", ";">>
LT   == <<"&", "lt", ";">>
GT   == <<"&", "gt", ";">>
QUOT == <<"&", "quot", ";">>
APOS == <<"&", "#39", ";">>

\* The ampersand replaced last: every entity written before it is escaped
\* a second time.
escapeTextAmpLast(s) ==
    replaceAll(
      replaceAll(
        replaceAll(
          replaceAll(
            replaceAll(s, "<", LT),
            ">", GT),
          QUOTE, QUOT),
        "'", APOS),
      "&", AMP)

\* escapeHtml on a string: the five replaceAll calls, in the code's order.
escapeText(s) ==
    replaceAll(
      replaceAll(
        replaceAll(
          replaceAll(
            replaceAll(s, "&", AMP),
            "<", LT),
          ">", GT),
        QUOTE, QUOT),
      "'", APOS)

\* A computation that may throw: [ok, out, err], out the text it yields,
\* err the message of the exception.
Yield(x) == [ok |-> TRUE, out |-> x, err |-> <<>>]
Throw(m) == [ok |-> FALSE, out |-> <<>>, err |-> <<m>>]

\* escapeHtml(v): the default "" for undefined; a value that is no string
\* has no replaceAll method.
escapeHtml(v) ==
    IF v.t = "undefined" THEN Yield(escapeText(<<>>))
    ELSE IF v.t = "str" THEN Yield(escapeText(v.s))
    ELSE IF v.t = "null"
         THEN Throw("Cannot read properties of null (reading 'replaceAll')")
    ELSE Throw("s.replaceAll is not a function")

\* x || "".
OrEmpty(v) == IF Truthy(v) THEN v ELSE VStr(<<>>)

\* The first exception of a sequence of computations, or their outputs
\* concatenated.
Concat(rs) ==
    IF \A i \in DOMAIN rs : rs[i].ok
    THEN Yield(Flatten([i \in DOMAIN rs |-> rs[i].out]))
    ELSE rs[CHOOSE i \in DOMAIN rs : ~rs[i].ok /\ \A j \in 1..(i - 1) : rs[j].ok]

TR_OPEN   == "<tr>"
TR_CLOSE  == "</tr>"
TD_OPEN   == "<td>"
TD_CLOSE  == "</td>"
PRE_OPEN  == "<pre style=\"white-space:pre-wrap;margin:0\">"
PRE_CLOSE == "</pre>"

PreCell(row, k) ==
    Concat(<< Yield(<<TD_OPEN, PRE_OPEN>>), escapeHtml(OrEmpty(Prop(row, k))),
              Yield(<<PRE_CLOSE, TD_CLOSE>>) >>)

PlainCell(row, k) ==
    Concat(<< Yield(<<TD_OPEN>>), escapeHtml(OrEmpty(Prop(row, k))),
              Yield(<<TD_CLOSE>>) >>)

\* <td>${row.index ?? ""}</td>: the value as a string, not escaped.
IndexCell(row) ==
    LET v == Prop(row, "index")
    IN  Yield(<<TD_OPEN>> \o (IF Nullish(v) THEN <<>> ELSE ToStr(v)) \o <<TD_CLOSE>>)

\* The arrow function of the rows' map: one <tr> of seven cells.
RenderRow(row) ==
    IF Nullish(row)
    THEN Throw("Cannot read properties of null (reading 'index')")
    ELSE Concat(<< Yield(<<TR_OPEN>>),
                   IndexCell(row),
                   PreCell(row, "source"),
                   PreCell(row, "translation"),
                   PreCell(row, "issues"),
                   PreCell(row, "fix"),
                   PlainCell(row, "score"),
                   PlainCell(row, "severity"),
                   Yield(<<TR_CLOSE>>) >>)

\* (parsed.rows || []).map(row => ...).join("").
RenderRows(v) ==
    IF ~Truthy(v) THEN Yield(<<>>)
    ELSE IF v.t # "arr" THEN Throw("(parsed.rows || []).map is not a function")
    ELSE Concat(AsSeq([i \in 1..Len(v.a) |-> RenderRow(v.a[i])]))

\* (parsed.rules || []).map(x => `<li>${escapeHtml(x)}</li>`).join("").
RenderRules(v) ==
    IF ~Truthy(v) THEN Yield(<<>>)
    ELSE IF v.t # "arr" THEN Throw("(parsed.rules || []).map is not a function")
    ELSE Concat(AsSeq([i \in 1..Len(v.a) |->
                   Concat(<< Yield(<<"<li>">>), escapeHtml(v.a[i]), Yield(<<"</li>">>) >>)]))

TABLE_HEAD == <<"<table>", "<thead>", TR_OPEN,
                "<th>#</th>", "<th>Source</th>", "<th>Translation</th>",
                "<th>Issues</th>", "<th>Fix</th>", "<th>Acc/Idio/Cons</th>",
                "<th>Severity</th>", TR_CLOSE, "</thead>", "<tbody>">>
TABLE_FOOT == <<"</tbody>", "</table>">>

\* The report: the rows, then the html template with the summary and the
\* rules.  Reading a property of null throws.
RenderReport(p) ==
    IF Nullish(p) THEN Throw("Cannot read properties of null (reading 'rows')")
    ELSE Concat(<< Yield(TABLE_HEAD),
                   RenderRows(Prop(p, "rows")),
                   Yield(TABLE_FOOT),
                   Yield(<<"<h3>Summary</h3>", "<pre class=\"mono\">">>),
                   escapeHtml(OrEmpty(Prop(p, "summary"))),
                   Yield(<<PRE_CLOSE, "<h3>Style Rules</h3>", "<ul>">>),
                   RenderRules(Prop(p, "rules")),
                   Yield(<<"</ul>">>) >>)

(***************************************************************************)
(* Reading the completion out of the upstream JSON body.                   *)
(***************************************************************************)
\* v?.k
OptProp(v, k) == IF Nullish(v) THEN VUndef ELSE Prop(v, k)

\* v[0] for a v that is neither null nor undefined.
Elem0(v) ==
    IF v.t = "arr" THEN (IF Len(v.a) > 0 THEN v.a[1] ELSE VUndef)
    ELSE IF v.t = "str" THEN (IF Len(v.s) > 0 THEN VStr(<<v.s[1]>>) ELSE VUndef)
    ELSE IF v.t = "obj" THEN Lookup(v.o, <<"0">>, Len(v.o))
    ELSE VUndef

\* String.prototype.trim.
\* The position of the last unit of s[1..n] that is no whitespace, or 0.
RECURSIVE SkipWsBack(_, _)
SkipWsBack(s, n) ==
    IF n >= 1 /\ s[n] \in Whitespace THEN SkipWsBack(s, n - 1) ELSE n

trim(s) == SubSeq(s, SkipWs(s, 1), SkipWsBack(s, Len(s)))

\* indexOf and lastIndexOf, as 0-based positions, -1 when ch is absent.
indexOf(s, ch) ==
    IF \E i \in DOMAIN s : s[i] = ch
    THEN (CHOOSE i \in DOMAIN s : s[i] = ch /\ \A j \in 1..(i - 1) : s[j] # ch) - 1
    ELSE -1

lastIndexOf(s, ch) ==
    IF \E i \in DOMAIN s : s[i] = ch
    THEN (CHOOSE i \in DOMAIN s : s[i] = ch /\ \A j \in (i + 1)..Len(s) : s[j] # ch) - 1
    ELSE -1

\* s.slice(from, to) for 0 <= from <= to <= s.length.
slice(s, from, to) == SubSeq(s, from + 1, to)

\* json?.choices?.[0]?.message?.content.
RawContent(json) ==
    LET choices == OptProp(json, "choices")
        first   == IF Nullish(choices) THEN VUndef ELSE Elem0(choices)
    IN  OptProp(OptProp(first, "message"), "content")

\* audit.js line 73: json?.choices?.[0]?.message?.content?.trim() || "".
\* A content that is neither nullish nor a string has no trim method.
ContentOf(json) ==
    LET c == RawContent(json)
    IN  IF Nullish(c) THEN Yield(<<>>)
        ELSE IF c.t = "str" THEN Yield(trim(c.s))
        ELSE Throw("json?.choices?.[0]?.message?.content?.trim is not a function")

\* The fallback taking the substring up to the first "}".
BraceScanFirstClose(c) ==
    LET start == indexOf(c, "{")
        end   == indexOf(c, "}")
    IN  IF start # -1 /\ end # -1 /\ end > start
        THEN JSONParse(slice(c, start, end + 1))
        ELSE ParseFail

\* audit.js lines 81-92: the substring from the first "{" to the last "}".
BraceScan(c) ==
    LET start == indexOf(c, "{")
        end   == lastIndexOf(c, "}")
    IN  IF start # -1 /\ end # -1 /\ end > start
        THEN JSONParse(slice(c, start, end + 1))
        ELSE ParseFail

\* audit.js lines 76-93: the strict parse, then the fallback.
ParseAudit(c) ==
    LET strict == JSONParse(c)
    IN  IF strict.ok THEN strict ELSE BraceScan(c)

\* part_000 lines 59-63: JSON.parse(json.choices[0].message.content) inside
\* one try: a TypeError on the way to the content is caught like a
\* SyntaxError.  JSON.parse takes the string of a content that is none.
PartContent(json) ==
    IF Nullish(json) THEN Throw("TypeError")
    ELSE LET choices == Prop(json, "choices")
         IN  IF Nullish(choices) THEN Throw("TypeError")
             ELSE LET first == Elem0(choices)
                  IN  IF Nullish(first) THEN Throw("TypeError")
                      ELSE LET message == Prop(first, "message")
                           IN  IF Nullish(message) THEN Throw("TypeError")
                               ELSE Yield(ToStr(Prop(message, "content")))

ParsePart(json) ==
    LET c == PartContent(json)
    IN  IF c.ok THEN JSONParse(c.out) ELSE ParseFail

(***************************************************************************)
(* Responses and requests.                                                 *)
(***************************************************************************)
\* res.status(status).json({ [key]: val }).
Res(status, key, val) == [status |-> status, key |-> key, val |-> val]

ErrorRes(status, message) == Res(status, "error", <<message>>)

\* The catch clause: err.message || "Server error".
CatchRes(m) == Res(500, "error", IF m = <<>> THEN <<"Server error">> ELSE m)

DEFAULT_STYLE == "Tone: concise, friendly, product/help-center. Fixed terms: imToken, Passkey, Token Collections, Arbitrum. Prefer idiomatic English; avoid literal calques."

\* style || the default guide, then the two texts.
PromptTexts(b) ==
    (IF Truthy(b.style) THEN ToStr(b.style) ELSE <<DEFAULT_STYLE>>)
    \o <<"Texts:", "SOURCE:">> \o ToStr(b.src)
    \o <<"TRANSLATION:">> \o ToStr(b.tgt)

\* The messages of the request: a system and a user message (audit.js
\* lines 16-47), one user message (part_000 lines 11-37).
BuildMessages(i, b) ==
    IF i = "audit"
    THEN << [role |-> "system", content |-> <<"You are a senior bilingual editor and must return ONLY a JSON object.">>],
            [role |-> "user", content |-> trim(<<"Audit the translation", "Style guide (customizable):">> \o PromptTexts(b))] >>
    ELSE << [role |-> "user",
             content |-> <<"You are a senior bilingual editor. Audit the translation",
                           "Style guide (customizable):">> \o PromptTexts(b)] >>

\* The fetch call's arguments.
Request(i, key, msgs) ==
    [ url |-> "https://api.openai.com/v1/chat/completions",
      authorization |-> IF key THEN "Bearer KEY" ELSE "Bearer undefined",
      model |-> IF i = "audit" THEN "gpt-5" ELSE "gpt-4o-mini",
      messages |-> msgs,
      temperature |-> "0.2",
      response_format |-> IF i = "audit" THEN "json_object" ELSE "none" ]

(***************************************************************************)
(* The environment: the requests the platform hands to the handler and the *)
(* ways the completion API answers.                                        *)
(***************************************************************************)
Impls == {"audit", "part"}
Methods == {"POST", "GET", "PUT"}

\* A body field: missing, the empty string, a text.
FieldValues == {VUndef, VStr(<<>>), VStr(<<"text">>)}
StyleValues == {VUndef, VStr(<<"Tone: formal.">>)}

\* req.body || {}: a request without a body reads as one with no field.
Bodies == [src : FieldValues, tgt : FieldValues, style : StyleValues]

\* JSON.stringify of a string: the quote and the backslash are escaped.
JsonString(x) ==
    <<QUOTE>>
    \o Flatten([i \in 1..Len(x) |->
                  IF x[i] \in {QUOTE, BACKSLASH} THEN <<BACKSLASH, x[i]>> ELSE <<x[i]>>])
    \o <<QUOTE>>

\* The JSON text of a value, as the model writes it.
RECURSIVE Stringify(_), StringifyMembers(_), StringifyElements(_)
Stringify(v) ==
    IF v.t = "str" THEN JsonString(v.s)
    ELSE IF v.t \in {"num", "bool"} THEN v.s
    ELSE IF v.t = "arr" THEN <<"[">> \o StringifyElements(v.a) \o <<"]">>
    ELSE IF v.t = "obj" THEN <<"{">> \o StringifyMembers(v.o) \o <<"}">>
    ELSE <<"null">>

StringifyMembers(ms) ==
    Flatten([i \in 1..Len(ms) |->
               (IF i > 1 THEN <<",">> ELSE <<>>)
               \o JsonString(ms[i].k) \o <<":">> \o Stringify(ms[i].v)])

StringifyElements(es) ==
    Flatten([i \in 1..Len(es) |->
               (IF i > 1 THEN <<",">> ELSE <<>>) \o Stringify(es[i])])

Member(k, v) == [k |-> <<k>>, v |-> v]

\* The text fields of a row, in the order of the table's columns.
Fields == <<"source", "translation", "issues", "fix", "score", "severity">>

DigitOf == <<"1", "2", "3", "4", "5", "6", "7", "8", "9">>

\* The units a cell's text is made of, and the cell texts of the reports.
CellUnits == {"a", "&", "<"}
CellStrings ==
    StringsUpTo(CellUnits, MaxCell)
    \cup { <<"&", "<", ">", QUOTE, "'">>, <<"&", "amp", ";">>, <<">">>, <<QUOTE>>,
           <<"'">>, <<BACKSLASH, "{">> }

\* The text of field f of row i: a mark of the row and the field, then x.
CellText(i, f, x) == <<DigitOf[i], Fields[f]>> \o x

\* Row i of a report.  idx: how the row's index is given ("num": the
\* number i, "str": the text x, "none": not at all); sparse: issues and
\* fix are missing and severity is the empty string.
RowValue(i, idx, x, sparse) ==
    VObj( (IF idx = "num" THEN <<Member("index", VNum(<<DigitOf[i]>>))>>
           ELSE IF idx = "str" THEN <<Member("index", VStr(x))>>
           ELSE <<>>)
          \o Flatten([f \in 1..Len(Fields) |->
                 IF sparse /\ Fields[f] \in {"issues", "fix"} THEN <<>>
                 ELSE IF sparse /\ Fields[f] = "severity"
                      THEN <<Member(Fields[f], VStr(<<>>))>>
                 ELSE <<Member(Fields[f], VStr(CellText(i, f, x)))>>]) )

ReportValue(n, idx, x, sparse) ==
    VObj(<< Member("rows", VArr(AsSeq([i \in 1..n |-> RowValue(i, idx, x, sparse)]))),
            Member("summary", VStr(x)),
            Member("rules", VArr(<<VStr(x), VStr(<<"rule">>)>>)) >>)

\* What the completion API does with a request.
\*   kind: "reject" (fetch rejects), "http_error" (a non-success status),
\*         "odd" (a success whose body is not a completion of text),
\*         "junk", "wrapped", "report" (a completion with this text);
\*   readable: whether the body can be read (r.text(), r.json());
\*   errtext: the body of a non-success answer; json: the body of a success;
\*   value, pre, post: the object the text was written from and the text
\*   around it.
Outcome(kind, ok, readable, errtext, json, value, pre, post) ==
    [kind |-> kind, ok |-> ok, readable |-> readable, errtext |-> errtext,
     json |-> json, value |-> value, pre |-> pre, post |-> post]

NoOutcome == Outcome("none", FALSE, FALSE, <<>>, VUndef, VUndef, <<>>, <<>>)

\* { choices: [ { message: { content } } ] }.
Completion(c) ==
    VObj(<<Member("choices",
             VArr(<<VObj(<<Member("message", VObj(<<Member("content", c)>>))>>)>>))>>)

ErrorBodies ==
    { <<>>, <<"Rate limit reached">>,
      <<"{", QUOTE, "error", QUOTE, ":", QUOTE, "<", "b", ">", QUOTE, "}">> }

HttpErrors ==
    {Outcome("http_error", FALSE, rd, t, VUndef, VUndef, <<>>, <<>>) :
        rd \in BOOLEAN, t \in ErrorBodies}

\* A success whose body cannot be read as JSON, or is no completion of text.
OddJsons ==
    { VNull, VObj(<<>>), VObj(<<Member("choices", VArr(<<>>))>>),
      VObj(<<Member("choices", VArr(<<VObj(<<>>)>>))>>),
      Completion(VUndef), Completion(VNull), Completion(VNum(<<"5">>)),
      Completion(VBool("true")), Completion(VObj(<<>>)) }

OddOutcomes ==
    {Outcome("odd", TRUE, FALSE, <<>>, VUndef, VUndef, <<>>, <<>>)}
    \cup {Outcome("odd", TRUE, TRUE, <<>>, j, VUndef, <<>>, <<>>) : j \in OddJsons}

\* Completions that are no report: no JSON, a bare value, an object whose
\* fields have other types than the schema's.
JunkTexts ==
    { <<>>, <<" ">>, <<"Here", " ", "is", " ", "the", " ", "audit">>,
      <<"5">>, <<"0">>, <<"null">>, <<"true">>, <<"false">>, <<QUOTE, "a", QUOTE>>,
      <<"[", "]">>, <<"[", "1", ",", "2", "]">>,
      <<"{">>, <<"}", " ", "{">>, <<"{", "Here", "}">>,
      <<"Here", "{", QUOTE, "rows", QUOTE, ":", "[", "}">>,
      <<" ", "{", "}", " ">>, <<"[", "{", "}", "]">>,
      Stringify(VObj(<<Member("rows", VArr(<<VNull>>))>>)),
      Stringify(VObj(<<Member("rows", VStr(<<"a">>))>>)),
      Stringify(VObj(<<Member("rows", VArr(<<VStr(<<"a">>), VNum(<<"5">>)>>))>>)),
      Stringify(VObj(<<Member("rows", VArr(<<VObj(<<Member("source", VNum(<<"5">>))>>)>>))>>)),
      Stringify(VObj(<<Member("rows", VArr(<<VObj(<<Member("index", VArr(<<VStr(<<"<">>), VNull>>))>>)>>))>>)),
      Stringify(VObj(<<Member("summary", VNum(<<"5">>))>>)),
      Stringify(VObj(<<Member("rules", VArr(<<VNull>>))>>)),
      Stringify(VObj(<<Member("rules", VObj(<<>>))>>)),
      Stringify(VObj(<<Member("rows", VNum(<<"0">>)), Member("rows", VArr(<<VObj(<<>>)>>))>>)) }

JunkOutcomes ==
    {Outcome("junk", TRUE, TRUE, <<>>, Completion(VStr(t)), VUndef, <<>>, <<>>) :
        t \in JunkTexts}

\* The units of the text a model puts around its JSON ("~~~" is a code
\* fence), and the texts of at most MaxWrap units in all before and after
\* the object.
WrapUnits == {"Here", "~~~", "{", "}", "[", "]"}
Wrappers ==
    {w \in StringsUpTo(WrapUnits, MaxWrap) \X StringsUpTo(WrapUnits, MaxWrap) :
        Len(w[1]) + Len(w[2]) <= MaxWrap}

WrapObjects ==
    { VObj(<<Member("summary", VStr(<<"a", "}">>))>>),
      ReportValue(1, "num", <<"<">>, FALSE) }

WrappedOutcomes ==
    {Outcome("wrapped", TRUE, TRUE, <<>>,
             Completion(VStr(w[1] \o Stringify(v) \o w[2])), v, w[1], w[2]) :
        w \in Wrappers, v \in WrapObjects}

\* A report as the schema has it; one whose index is a text; one without
\* index, issues and fix.
ReportKinds == {<<"num", FALSE>>, <<"str", FALSE>>, <<"none", TRUE>>}

ReportOutcomes ==
    {Outcome("report", TRUE, TRUE, <<>>, Completion(VStr(Stringify(v))), v, <<>>, <<>>) :
        v \in {ReportValue(n, k[1], x, k[2]) :
                  n \in 0..MaxRows, k \in ReportKinds, x \in CellStrings}}

Outcomes == HttpErrors \cup OddOutcomes \cup JunkOutcomes \cup WrappedOutcomes \cup ReportOutcomes

\* The messages of the errors the runtime throws at an await.
FetchErrors == {<<"fetch failed">>}
BODY_READ_ERROR == "terminated"
JSON_BODY_ERROR == "Unexpected end of JSON input"

(***************************************************************************)
(* The handler.                                                            *)
(***************************************************************************)
Pass == Res(0, "pass", <<>>)

\* The checks of part_000 lines 3-9: the method, then the body.
ValidatePart(m, b) ==
    IF m # "POST" THEN ErrorRes(405, "Method not allowed")
    ELSE IF ~Truthy(b.src) \/ ~Truthy(b.tgt)
         THEN ErrorRes(400, "Missing source or translation")
    ELSE Pass

\* The checks of audit.js lines 3-14: the method, the credential, the body.
ValidateAudit(m, key, b) ==
    IF m # "POST" THEN ErrorRes(405, "Method not allowed")
    ELSE IF ~key THEN ErrorRes(500, "Missing OPENAI_API_KEY")
    ELSE IF ~Truthy(b.src) \/ ~Truthy(b.tgt)
         THEN ErrorRes(400, "Missing source or translation")
    ELSE Pass

\* The body is not checked.
ValidationSkipsBody(i, m, key, b) ==
    IF m # "POST" THEN ErrorRes(405, "Method not allowed")
    ELSE IF i = "audit" /\ ~key THEN ErrorRes(500, "Missing OPENAI_API_KEY")
    ELSE Pass

\* The method is checked after the credential and the body.
ValidationChecksMethodLast(i, m, key, b) ==
    IF i = "audit" /\ ~key THEN ErrorRes(500, "Missing OPENAI_API_KEY")
    ELSE IF ~Truthy(b.src) \/ ~Truthy(b.tgt)
         THEN ErrorRes(400, "Missing source or translation")
    ELSE IF m # "POST" THEN ErrorRes(405, "Method not allowed")
    ELSE Pass

Validation(i, m, key, b) ==
    IF i = "audit" THEN ValidateAudit(m, key, b) ELSE ValidatePart(m, b)

\* return res.status(...).json(...): the response is written and the
\* handler returns.
Return(r) ==
    /\ responses' = Append(responses, r)
    /\ pc' = "Done"

Init ==
    /\ impl \in Impls
    /\ method \in Methods
    /\ hasKey \in BOOLEAN
    /\ body \in Bodies
    /\ pc = "Validate"
    /\ stages = <<>>
    /\ prompt = <<>>
    /\ sent = <<>>
    /\ reply = NoOutcome
    /\ upstream = NoOutcome
    /\ content = <<>>
    /\ parsed = VUndef
    /\ html = <<>>
    /\ responses = <<>>

\* The checks before any work: a failed check answers at once.
Validate ==
    /\ pc = "Validate"
    /\ \E v \in {Validation(impl, method, hasKey, body)} :
           IF v = Pass
           THEN /\ pc' = "BuildPrompt"
                /\ stages' = Append(stages, "Validate")
                /\ UNCHANGED responses
           ELSE /\ Return(v)
                /\ stages' = stages \o <<"Validate", "Respond">>
    /\ UNCHANGED <<impl, method, hasKey, body, prompt, sent, reply, upstream,
                   content, parsed, html>>

\* The prompt from the body and the style guide.
BuildPrompt ==
    /\ pc = "BuildPrompt"
    /\ prompt' = BuildMessages(impl, body)
    /\ stages' = Append(stages, "BuildPrompt")
    /\ pc' = "CallModel"
    /\ UNCHANGED <<impl, method, hasKey, body, sent, reply, upstream, content,
                   parsed, html, responses>>

\* fetch(...): the request leaves and the handler awaits the answer.
CallModel ==
    /\ pc = "CallModel"
    /\ sent' = Append(sent, Request(impl, hasKey, prompt))
    /\ stages' = Append(stages, "CallModel")
    /\ pc' = "AwaitFetch"
    /\ UNCHANGED <<impl, method, hasKey, body, prompt, reply, upstream, content,
                   parsed, html, responses>>

\* fetch rejects: the catch clause answers 500 with the error's message.
FetchRejects ==
    /\ pc = "AwaitFetch"
    /\ \E m \in FetchErrors :
          /\ reply' = Outcome("reject", FALSE, FALSE, m, VUndef, VUndef, <<>>, <<>>)
          /\ Return(CatchRes(m))
    /\ stages' = Append(stages, "Respond")
    /\ UNCHANGED <<impl, method, hasKey, body, prompt, sent, upstream, content,
                   parsed, html>>

\* fetch resolves with a Response r; if (!r.ok) sends the handler to read
\* the error body.
FetchResolves ==
    /\ pc = "AwaitFetch"
    /\ \E o \in Outcomes :
          /\ reply' = o
          /\ upstream' = o
          /\ pc' = IF o.ok THEN "ReadJson" ELSE "ReadText"
    /\ UNCHANGED <<impl, method, hasKey, body, stages, prompt, sent, content,
                   parsed, html, responses>>

\* The body left out of the message.
ErrorBodyResGeneric(u) ==
    IF u.readable
    THEN ErrorRes(500, "OpenAI error")
    ELSE CatchRes(<<BODY_READ_ERROR>>)

\* The answer to a non-success status once r.text() has settled.
ErrorBodyRes(u) ==
    IF u.readable
    THEN Res(500, "error", <<"OpenAI error: ">> \o u.errtext)
    ELSE CatchRes(<<BODY_READ_ERROR>>)

\* A non-success answer retried once before it is reported.
ReadTextRetry ==
    /\ pc = "ReadText"
    /\ IF Len(sent) < 2
       THEN /\ pc' = "CallModel"
            /\ UNCHANGED <<stages, responses>>
       ELSE /\ Return(ErrorBodyRes(upstream))
            /\ stages' = Append(stages, "Respond")
    /\ UNCHANGED <<impl, method, hasKey, body, prompt, sent, reply, upstream,
                   content, parsed, html>>

\* await r.text(), then the 500 with the body in it.
ReadText ==
    /\ pc = "ReadText"
    /\ Return(ErrorBodyRes(upstream))
    /\ stages' = Append(stages, "Respond")
    /\ UNCHANGED <<impl, method, hasKey, body, prompt, sent, reply, upstream,
                   content, parsed, html>>

\* await r.json().
ReadJson ==
    /\ pc = "ReadJson"
    /\ IF upstream.readable
       THEN /\ pc' = "ParseReply"
            /\ UNCHANGED <<stages, responses>>
       ELSE /\ Return(CatchRes(<<JSON_BODY_ERROR>>))
            /\ stages' = Append(stages, "Respond")
    /\ UNCHANGED <<impl, method, hasKey, body, prompt, sent, reply, upstream,
                   content, parsed, html>>

\* The text the handler hands to JSON.parse, or the exception on the way.
Extract(i, json) == IF i = "audit" THEN ContentOf(json) ELSE PartContent(json)

\* The parsed reply, given the text extracted.
Parse(i, json, c) == IF i = "audit" THEN ParseAudit(c) ELSE ParsePart(json)

\* The upstream answers are a finite set: what each handler extracts from
\* and parses out of each answer, and what it renders from each parsed
\* reply, computed once.
ExtractOf == [i \in Impls, o \in Outcomes |-> Extract(i, o.json)]
ParseOf == [i \in Impls, o \in Outcomes |-> Parse(i, o.json, ExtractOf[i, o].out)]
RenderOf == [v \in {ParseOf[i, o].val : i \in Impls, o \in Outcomes} |-> RenderReport(v)]

\* The completion's content parsed: audit.js lines 73-93, part_000 lines
\* 58-63.
ParseReply ==
    /\ pc = "ParseReply"
    /\ \E c \in {ExtractOf[impl, upstream]} :
       \E p \in {ParseOf[impl, upstream]} :
           IF impl = "audit" /\ ~c.ok
           THEN /\ Return(CatchRes(c.err))
                /\ stages' = stages \o <<"ParseReply", "Respond">>
                /\ UNCHANGED <<content, parsed>>
           ELSE /\ content' = c.out
                /\ IF p.ok
                   THEN /\ parsed' = p.val
                        /\ pc' = "Render"
                        /\ stages' = Append(stages, "ParseReply")
                        /\ UNCHANGED responses
                   ELSE /\ Return(ErrorRes(500, "Failed to parse model JSON."))
                        /\ stages' = stages \o <<"ParseReply", "Respond">>
                        /\ UNCHANGED parsed
    /\ UNCHANGED <<impl, method, hasKey, body, prompt, sent, reply, upstream, html>>

\* An exception while rendering leaves the report empty and the handler
\* goes on to answer.
RenderIgnoresThrow ==
    /\ pc = "Render"
    /\ html' = RenderOf[parsed].out
    /\ pc' = "Respond"
    /\ stages' = Append(stages, "Render")
    /\ UNCHANGED <<impl, method, hasKey, body, prompt, sent, reply, upstream,
                   content, parsed, responses>>

\* The report rendered; an exception goes to the catch clause.
Render ==
    /\ pc = "Render"
    /\ \E r \in {RenderOf[parsed]} :
           IF r.ok
           THEN /\ html' = r.out
                /\ pc' = "Respond"
                /\ stages' = Append(stages, "Render")
                /\ UNCHANGED responses
           ELSE /\ Return(CatchRes(r.err))
                /\ stages' = stages \o <<"Render", "Respond">>
                /\ UNCHANGED html
    /\ UNCHANGED <<impl, method, hasKey, body, prompt, sent, reply, upstream,
                   content, parsed>>

\* return res.status(200).json({ html }).
Respond ==
    /\ pc = "Respond"
    /\ Return(Res(200, "html", html))
    /\ stages' = Append(stages, "Respond")
    /\ UNCHANGED <<impl, method, hasKey, body, prompt, sent, reply, upstream,
                   content, parsed, html>>

Next ==
    \/ Validate
    \/ BuildPrompt
    \/ CallModel
    \/ FetchRejects
    \/ FetchResolves
    \/ ReadText
    \/ ReadJson
    \/ ParseReply
    \/ Render
    \/ Respond

Spec == Init /\ [][Next]_vars

\* The event loop runs every step that can run, and the upstream call
\* settles.
FairSpec == Spec /\ WF_vars(Next)

(***************************************************************************)
(* Properties.                                                             *)
(***************************************************************************)
Done == pc = "Done"

\* The one response of a finished request.
Answered == Done /\ Len(responses) = 1
Status == responses[1].status

MissingInput == ~Truthy(body.src) \/ ~Truthy(body.tgt)

PIPELINE == <<"Validate", "BuildPrompt", "CallModel", "ParseReply", "Render", "Respond">>

\* The segments of s between an open and the next close, in order.
RECURSIVE SplitBetween(_, _, _)
SplitBetween(s, open, close) ==
    LET i == indexOf(s, open) + 1
    IN  IF i = 0 THEN <<>>
        ELSE LET rest == SubSeq(s, i + 1, Len(s))
                 j    == indexOf(rest, close) + 1
             IN  IF j = 0 THEN <<>>
                 ELSE <<SubSeq(rest, 1, j - 1)>>
                      \o SplitBetween(SubSeq(rest, j + 1, Len(rest)), open, close)

\* The rows of the table body of a rendered report, each the texts of its
\* cells without the <pre> tags.
TableRows(h) ==
    LET tbody == SplitBetween(h, "<tbody>", "</tbody>")
        trs   == IF tbody = <<>> THEN <<>> ELSE SplitBetween(tbody[1], TR_OPEN, TR_CLOSE)
        Strip(cell) == SelectSeq(cell, LAMBDA u : u \notin {PRE_OPEN, PRE_CLOSE})
    IN  [r \in 1..Len(trs) |->
            LET tds == SplitBetween(trs[r], TD_OPEN, TD_CLOSE)
            IN  [c \in 1..Len(tds) |-> Strip(tds[c])]]

EntityNames == {"amp", "lt", "gt", "quot", "#39"}
EntityChar(n) ==
    IF n = "amp" THEN "&" ELSE IF n = "lt" THEN "<" ELSE IF n = "gt" THEN ">"
    ELSE IF n = "quot" THEN QUOTE ELSE "'"

EntityAt(h, i) == i + 2 <= Len(h) /\ h[i] = "&" /\ h[i + 1] \in EntityNames /\ h[i + 2] = ";"

\* The text an HTML parser reads from h: each entity decoded once.
RECURSIVE Unescape(_)
Unescape(h) ==
    IF h = <<>> THEN <<>>
    ELSE IF EntityAt(h, 1) THEN <<EntityChar(h[2])>> \o Unescape(SubSeq(h, 4, Len(h)))
    ELSE <<Head(h)>> \o Unescape(Tail(h))

\* No metacharacter stands in h but the ampersand of an entity.
NoRawMeta(h) ==
    \A i \in DOMAIN h :
        /\ h[i] \notin {"<", ">", QUOTE, "'"}
        /\ h[i] = "&" => EntityAt(h, i)

\* Whether some substring of t is the text of a JSON object.
ContainsObject(t) ==
    \E i \in DOMAIN t : \E j \in i..Len(t) :
        LET p == JSONParse(SubSeq(t, i, j)) IN p.ok /\ p.val.t = "obj"

\* The response to a completion whose content is exactly the text of v.
ExactResponse(v) ==
    LET p == ParseAudit(trim(Stringify(v)))
    IN  Res(200, "html", RenderReport(p.val).out)

BraceFree(t) == \A i \in DOMAIN t : t[i] \notin {"{", "}"}

\* The whole content of a wrapped completion.
WrappedText == reply.pre \o Stringify(reply.value) \o reply.post

\* A report as the schema of the prompt has it: every row an index number
\* and six strings, a summary string, rules that are strings.
Conforming(v) ==
    /\ v.t = "obj"
    /\ Prop(v, "rows").t = "arr"
    /\ \A i \in DOMAIN Prop(v, "rows").a :
          LET row == Prop(v, "rows").a[i]
          IN  /\ row.t = "obj"
              /\ Prop(row, "index").t = "num"
              /\ \A f \in DOMAIN Fields : Prop(row, Fields[f]).t = "str"
    /\ Prop(v, "summary").t = "str"
    /\ Prop(v, "rules").t = "arr"
    /\ \A i \in DOMAIN Prop(v, "rules").a : Prop(v, "rules").a[i].t = "str"

\* C1 as stated: a POST request in which src or tgt is missing or empty is
\* answered 400 with an error field and sends nothing upstream, whether or
\* not the credential is configured, in both handlers.
C1_Original ==
    (method = "POST" /\ MissingInput) =>
        /\ sent = <<>>
        /\ Done => (Answered /\ Status = 400 /\ responses[1].key = "error")

\* C1 as amended: such a request sends nothing upstream and is answered
\* with an error field; the status is 400, except in audit.js without a
\* credential, where the credential check comes first and the answer is
\* 500 "Missing OPENAI_API_KEY".
C1_MissingInput ==
    (method = "POST" /\ MissingInput) =>
        /\ sent = <<>>
        /\ Done =>
              /\ Answered
              /\ IF impl = "audit" /\ ~hasKey
                 THEN responses[1] = ErrorRes(500, "Missing OPENAI_API_KEY")
                 ELSE responses[1] = ErrorRes(400, "Missing source or translation")

C1_Witness ==
    /\ Done /\ impl = "audit" /\ hasKey /\ method = "POST"
    /\ Truthy(body.src) /\ body.tgt = VStr(<<>>)
    /\ Status = 400

\* C2 as stated: without a credential, a POST request carrying src and tgt
\* is answered 500 with the configuration error and sends nothing
\* upstream, in both handlers.
C2_ConfigError ==
    (method = "POST" /\ ~hasKey /\ ~MissingInput) =>
        /\ sent = <<>>
        /\ Done => (Answered /\ responses[1] = ErrorRes(500, "Missing OPENAI_API_KEY"))

\* C3 as stated: a successful upstream answer whose completion content
\* holds no JSON object at all (empty or absent, prose, broken braces, a
\* bare value) is answered 500 "Failed to parse model JSON.", never 200.
C3_ParseFailure ==
    ( /\ Done
      /\ reply.ok /\ reply.readable
      /\ \/ reply.kind = "junk" /\ ~ContainsObject(RawContent(reply.json).s)
         \/ reply.kind = "odd" /\ Nullish(RawContent(reply.json)) ) =>
        /\ Answered
        /\ responses[1] = ErrorRes(500, "Failed to parse model JSON.")

C5_MethodNotAllowed ==
    (method # "POST") =>
        /\ sent = <<>>
        /\ Done => (Answered /\ Status = 405 /\ responses[1].key = "error")

C5_Witness ==
    /\ Done /\ method = "GET" /\ ~hasKey /\ MissingInput
    /\ Status = 405

\* C6: a request that passes validation (POST, credential, src and tgt)
\* has sent exactly one request upstream when it ends, whatever the
\* upstream outcome; a request rejected during validation has sent none;
\* no request ever sends two.
C6_ExactlyOneCall ==
    /\ Len(sent) <= 1
    /\ (Done /\ method = "POST" /\ hasKey /\ ~MissingInput) => Len(sent) = 1
    /\ (Done /\ stages = <<"Validate", "Respond">>) => sent = <<>>
    /\ pc \in {"Validate", "BuildPrompt", "CallModel"} => sent = <<>>

C6_Witness ==
    /\ Done /\ hasKey /\ reply.kind = "http_error" /\ Len(sent) = 1

\* C7 as stated: a non-success upstream status is answered 500 with the
\* upstream body verbatim in the message, without parsing or rendering,
\* never 200, and without a further upstream request.
C7_Original ==
    (reply.kind = "http_error") =>
        /\ Len(sent) = 1
        /\ parsed = VUndef /\ html = <<>>
        /\ Done => ( /\ Answered
                     /\ responses[1] = Res(500, "error", <<"OpenAI error: ">> \o reply.errtext) )

\* C7 as amended: the same when the body can be read; when reading the
\* body fails, the answer is still 500, with the exception's message.
C7_UpstreamFailure ==
    (reply.kind = "http_error") =>
        /\ Len(sent) = 1
        /\ parsed = VUndef /\ html = <<>>
        /\ Done => ( /\ Answered
                     /\ IF reply.readable
                        THEN responses[1] = Res(500, "error", <<"OpenAI error: ">> \o reply.errtext)
                        ELSE responses[1] = Res(500, "error", <<BODY_READ_ERROR>>) )

C7_Witness ==
    /\ Done /\ reply.kind = "http_error" /\ reply.readable
    /\ "{" \in Range(reply.errtext)
    /\ Status = 500

\* C8: a successful reply whose content is exactly a JSON object matching
\* the schema is answered 200 with one table row per element of rows, in
\* the array's order, and every text cell holds its value with each of
\* & < > " ' written as its entity, once.
C8_RowsEscaped ==
    (Done /\ reply.kind = "report" /\ Conforming(reply.value)) =>
        /\ Answered /\ Status = 200 /\ responses[1].key = "html"
        /\ LET rows == Prop(reply.value, "rows").a
               trs  == TableRows(responses[1].val)
           IN  /\ Len(trs) = Len(rows)
               /\ \A i \in DOMAIN rows :
                     /\ Len(trs[i]) = Len(Fields) + 1
                     /\ trs[i][1] = Prop(rows[i], "index").s
                     /\ \A f \in DOMAIN Fields :
                           /\ NoRawMeta(trs[i][f + 1])
                           /\ Unescape(trs[i][f + 1]) = Prop(rows[i], Fields[f]).s

C8_Witness ==
    /\ Done /\ reply.kind = "report" /\ Conforming(reply.value)
    /\ Len(Prop(reply.value, "rows").a) >= 2
    /\ Prop(reply.value, "summary").s = <<"&", "<", ">", QUOTE, "'">>
    /\ Status = 200

\* The stages run so far are the pipeline's first stages in order, then
\* Respond if the request has answered.
StagesInOrder ==
    \E k \in 0..Len(PIPELINE) :
        \/ stages = SubSeq(PIPELINE, 1, k)
        \/ stages = SubSeq(PIPELINE, 1, k) \o <<"Respond">>

C9_Safety ==
    /\ StagesInOrder
    /\ Len(responses) <= 1
    /\ Done <=> Len(responses) = 1
    /\ Done =>
          /\ Status \in {200, 400, 405, 500}
          /\ stages[Len(stages)] = "Respond"
          /\ Status = 200 =>
                /\ stages = PIPELINE
                /\ Validation(impl, method, hasKey, body) = Pass
                /\ Len(sent) = 1 /\ reply.ok /\ reply.readable
                /\ content = ExtractOf[impl, reply].out
                /\ ParseOf[impl, reply].ok /\ parsed = ParseOf[impl, reply].val
                /\ RenderOf[parsed].ok
                /\ responses[1] = Res(200, "html", RenderOf[parsed].out)
          /\ Status # 200 =>
                /\ responses[1].key = "error"
                /\ html = <<>>
          /\ reply.kind = "reject" =>
                /\ responses[1] = Res(500, "error", reply.errtext)
                /\ stages = <<"Validate", "BuildPrompt", "CallModel", "Respond">>
          /\ (reply.ok /\ ~reply.readable) =>
                /\ responses[1] = Res(500, "error", <<JSON_BODY_ERROR>>)
                /\ stages = <<"Validate", "BuildPrompt", "CallModel", "Respond">>
          /\ (reply.ok /\ reply.readable /\ parsed # VUndef /\ ~RenderOf[parsed].ok) =>
                /\ responses[1] = Res(500, "error", RenderOf[parsed].err)
                /\ stages = PIPELINE

\* A step runs one stage more, or answers; an answered request takes no
\* step.
C9_Step ==
    /\ pc # "Done"
    /\ Len(stages') >= Len(stages)
    /\ SubSeq(stages', 1, Len(stages)) = stages
    /\ Len(responses) = 0

\* C9: every request runs Validate, BuildPrompt, CallModel, ParseReply,
\* Render, Respond in that order, none twice, and ends with exactly one
\* response of status 200, 400, 405 or 500; 200 only after validation
\* passed, the upstream answered with success, the reply parsed and the
\* report rendered; the first failure, an exception included, answers
\* once (500 with the exception's message) and no later stage runs.
C9_Pipeline == []C9_Safety /\ [][C9_Step]_vars /\ <>Done

C9_Witness ==
    /\ Done /\ Status = 500
    /\ stages = <<"Validate", "BuildPrompt", "CallModel", "ParseReply", "Render", "Respond">>
    /\ responses[1].val = <<"Cannot read properties of null (reading 'index')">>

\* C10 as stated: in every 200 response, every value taken from the parsed
\* reply has been through escapeHtml, so that none of & < > " ' of the
\* model's reaches the html unescaped.
C10_AllEscaped ==
    (Done /\ Status = 200) => NoRawMeta(responses[1].val)

=============================================================================
